---- MODULE Spec2Model ----
(***************************************************************************)
(* Keyword-driven web harvester (scrapper_v1.py, scrapper_v2.py,           *)
(* scrapper_v3.py): fetch -> extract -> (v3: download) pipelines run as    *)
(* asyncio tasks per category batch, followed by a create-or-append save   *)
(* of the batch into the category's JSON file.                             *)
(*                                                                         *)
(* Strings are sequences of one-character strings, so that lower(),        *)
(* substring tests, suffix tests and URL joining are computed as the code  *)
(* computes them.  A file is a sequence of tokens (brackets, commas,       *)
(* whitespace, serialised objects), so that json.dump / json.load and the  *)
(* in-place rewrite at offset 0 are computed, not assumed.                 *)
(***************************************************************************)
EXTENDS Integers, Sequences, FiniteSets, TLC

VARIABLES
    variant,     \* which script runs: "v1", "v2" or "v3"
    keywords,    \* main: keywords = read_texts_from_file("./keywords.txt")
    seeds,       \* main: the four seed lists, by category
    mainPc,      \* main's position: "run", "done" or "crashed"
    cur,         \* index (1..4) of the category whose scrape_urls call is current; 0 before the first
    status,      \* per category: "pending", "running", "saved", "savefailed", "aborted"
    semaphore,   \* scrape_urls: the value of asyncio.Semaphore(10)
    waiters,     \* scrape_urls: FIFO queue of task indexes blocked in semaphore.acquire
    tasks,       \* scrape_urls: the per-URL pipeline tasks handed to asyncio.gather
    results,     \* scrape_urls: the local `results` after the filter (None while unbound)
    fs,          \* the category JSON files: category -> Absent or a token sequence
    fs0,         \* history: the category files as they were before the run
    disk,        \* downloaded files: path -> bytes written
    saved,       \* history: per category, the batches whose save returned normally, concatenated
    last,        \* history: the most recent save_results_to_file call
    calls,       \* history: per category, the number of save_results_to_file calls
    finished,    \* history: the tasks of the current batch in the order they ended (batches of at most MaxOrdered tasks)
    xin,         \* extract_data harness: the arguments of the call
    xout         \* extract_data harness: the outcome of the call

vars == <<variant, keywords, seeds, mainPc, cur, status, semaphore, waiters, tasks,
          results, fs, fs0, disk, saved, last, calls, finished, xin, xout>>

-----------------------------------------------------------------------------
(* Strings *)

\* str.lower() on the alphabet used by the model's pages, keywords and URLs
LowerChar(c) ==
    CASE c = "R" -> "r"
      [] c = "U" -> "u"
      [] c = "P" -> "p"
      [] c = "D" -> "d"
      [] c = "F" -> "f"
      [] OTHER -> c

Lower(s) == [i \in 1..Len(s) |-> LowerChar(s[i])]

\* Python's `needle in hay` for strings
Contains(hay, needle) ==
    \E i \in 0..(Len(hay) - Len(needle)) : SubSeq(hay, i + 1, i + Len(needle)) = needle

\* str.endswith(suf)
EndsWith(s, suf) ==
    Len(s) >= Len(suf) /\ SubSeq(s, Len(s) - Len(suf) + 1, Len(s)) = suf

\* positions of "/" in s
Slashes(s) == {i \in 1..Len(s) : s[i] = "/"}

Max(S) == CHOOSE m \in S : \A n \in S : n <= m
Min(S) == CHOOSE m \in S : \A n \in S : m <= n

\* Python's None where an object (a dict, a response) is expected
None == [none |-> TRUE]

\* Python's None where a string is expected (no string of the model has an
\* element of more than one character)
NoneStr == <<"None">>

Variants == {"v1", "v2", "v3"}

\* main: the categories in the order main scrapes them
Categories == <<"articles", "books", "news", "regular">>

CategorySet == {Categories[k] : k \in 1..Len(Categories)}

-----------------------------------------------------------------------------
(* Pages: what BeautifulSoup(page_content, 'html.parser') exposes to       *)
(* extract_data.                                                           *)
(*   text      soup.get_text()                                             *)
(*   canonical soup.find('link', rel='canonical'): NoTag, or a tag with    *)
(*             its attributes (an href, or none)                           *)
(*   title     soup.title: NoTag, or a tag whose .string is a string or    *)
(*             None (an empty title, or one with child tags)               *)
(*   links     the href of every <a href=...>, in document order           *)
(***************************************************************************)

NoTag == [tag |-> FALSE]

LinkTag(href) == [tag |-> TRUE, href |-> href]

LinkTagNoHref == [tag |-> TRUE]

TitleTag(string) == [tag |-> TRUE, string |-> string]

\* the scheme prefix that makes an href absolute
Scheme == <<"h", ":">>

IsAbsolute(href) == Len(href) >= Len(Scheme) /\ SubSeq(href, 1, Len(Scheme)) = Scheme

\* urllib.parse.urljoin(base_url, href) for absolute hrefs, root-relative hrefs
\* ("/docs/a.pdf") and path-relative hrefs ("a.pdf"); base_url is absolute
urljoin(base_url, href) ==
    LET rest == SubSeq(base_url, Len(Scheme) + 1, Len(base_url))
        cut  == Slashes(rest)
        origin == IF cut = {} THEN base_url
                  ELSE SubSeq(base_url, 1, Len(Scheme) + Min(cut) - 1)
        dir  == IF cut = {} THEN base_url \o <<"/">>
                ELSE SubSeq(base_url, 1, Len(Scheme) + Max(cut))
    IN  IF href = <<>> THEN base_url
        ELSE IF IsAbsolute(href) THEN href
        ELSE IF href[1] = "/" THEN origin \o href
        ELSE dir \o href

\* os.path.basename(urlparse(file_url).path): the text after the last "/"
basename(file_url) ==
    LET cut == Slashes(file_url)
    IN  IF cut = {} THEN file_url ELSE SubSeq(file_url, Max(cut) + 1, Len(file_url))

\* v2: re.search(r'\.(pdf|docx|xlsx|pptx|jpg|jpeg|png|gif|zip|rar)$', file_url, re.IGNORECASE)
ExtensionsV2 ==
    { <<".", "p", "d", "f">>, <<".", "d", "o", "c", "x">>, <<".", "x", "l", "s", "x">>,
      <<".", "p", "p", "t", "x">>, <<".", "j", "p", "g">>, <<".", "j", "p", "e", "g">>,
      <<".", "p", "n", "g">>, <<".", "g", "i", "f">>, <<".", "z", "i", "p">>,
      <<".", "r", "a", "r">> }

\* v3: file_url.endswith(('.pdf', '.jpg', '.jpeg', '.png', '.docx', '.zip'))
ExtensionsV3 ==
    { <<".", "p", "d", "f">>, <<".", "j", "p", "g">>, <<".", "j", "p", "e", "g">>,
      <<".", "p", "n", "g">>, <<".", "d", "o", "c", "x">>, <<".", "z", "i", "p">> }

\* any(kw.lower() in file_url.lower() for kw in keywords)
KeywordInUrl(kws, file_url) ==
    \E k \in 1..Len(kws) : Contains(Lower(file_url), Lower(kws[k]))

\* matched_keywords = [kw for kw in keywords if kw.lower() in text_content]
matched_keywords(kws, text_content) ==
    SelectSeq(kws, LAMBDA kw : Contains(text_content, Lower(kw)))

\* v2: the loop over soup.find_all('a', href=True) (raw href, regex, then keyword)
downloadable_files(page, kws) ==
    SelectSeq(page.links,
              LAMBDA href : /\ \E e \in ExtensionsV2 : EndsWith(Lower(href), e)
                            /\ KeywordInUrl(kws, href))

\* v3: the loop over soup.find_all('a', href=True) (urljoin, keyword, then suffix)
files_v3(page, kws, base_url) ==
    LET joined == [i \in 1..Len(page.links) |-> urljoin(base_url, page.links[i])]
    IN  SelectSeq(joined,
                  LAMBDA file_url : /\ KeywordInUrl(kws, file_url)
                                    /\ \E e \in ExtensionsV3 : EndsWith(file_url, e))

\* 'title': soup.title.string if soup.title else 'No Title'
NoTitle == <<"N", "o", " ", "T", "i", "t", "l", "e">>

title_of(page) == IF page.title.tag THEN page.title.string ELSE NoTitle

\* 'url': soup.find('link', rel='canonical')['href'] if soup.find(...) else <fallback>
\* v1, v2: the fallback is None; v3: the fallback is base_url
url_fallback(v, base_url) == IF v = "v3" THEN base_url ELSE NoneStr

Returned(value) == [raised |-> FALSE, value |-> value]

Raised(exc) == [raised |-> TRUE, exc |-> exc]

\* extract_data(page_content, keywords[, base_url]) of the three scripts.
\* Outcome: Returned(data), Returned(None), or Raised("KeyError") when the
\* canonical link tag has no href attribute (Tag.__getitem__).
extract_data(v, page, kws, base_url) ==
    LET text_content == Lower(page.text)
        matched == matched_keywords(kws, text_content)
        core == [url |-> IF page.canonical.tag THEN page.canonical.href
                         ELSE url_fallback(v, base_url),
                 title |-> title_of(page),
                 keywords_matched |-> matched,
                 content |-> text_content]
    IN  IF matched = <<>> THEN Returned(None)
        ELSE IF page.canonical.tag /\ "href" \notin DOMAIN page.canonical
             THEN Raised("KeyError")
        ELSE IF v = "v1" THEN Returned(core)
        ELSE IF v = "v2"
             THEN Returned(core @@ [downloadable_files |-> downloadable_files(page, kws)])
        ELSE Returned(core @@ [files |-> files_v3(page, kws, base_url)])

-----------------------------------------------------------------------------
(* Result store: scraped_data/<version>/<data_type>.json                   *)
(***************************************************************************)

\* no file at the path (a token sequence no file can hold)
Absent == <<[t |-> "absent"]>>

LB == [t |-> "["]

RB == [t |-> "]"]

COMMA == [t |-> ","]

WS == [t |-> "ws"]

Obj(d) == [t |-> "obj", v |-> d]

Junk == [t |-> "junk"]

\* json.dump(lst, file, ensure_ascii=False, indent=4): "[]" for an empty list,
\* otherwise "[" NL-indent obj "," NL-indent obj ... NL "]"
json_dump(lst) ==
    LET n == Len(lst)
        tok(k) == IF k = 1 THEN LB
                  ELSE IF k = 3 * n + 2 THEN RB
                  ELSE IF k = 3 * n + 1 THEN WS
                  ELSE IF (k - 2) % 3 = 0 THEN WS
                  ELSE IF (k - 2) % 3 = 1 THEN Obj(lst[((k - 2) \div 3) + 1])
                  ELSE COMMA
    IN  [k \in 1..(3 * n + 2) |-> tok(k)]

\* json.load(file): whitespace between tokens is insignificant; the document is
\* one value (here an array of objects, or a single object) and nothing else.
\* Outcome: Returned([list |-> TRUE, items |-> ...]), Returned([list |-> FALSE]),
\* or Raised("JSONDecodeError").
json_load(content) ==
    LET t == SelectSeq(content, LAMBDA x : x # WS)
        n == Len(t)
        inner == SubSeq(t, 2, n - 1)
        m == Len(inner)
    IN  IF n = 1 /\ t[1].t = "obj" THEN Returned([list |-> FALSE])
        ELSE IF /\ n >= 2
                /\ t[1] = LB
                /\ t[n] = RB
                /\ (m = 0 \/ m % 2 = 1)
                /\ \A k \in 1..m : IF k % 2 = 1 THEN inner[k].t = "obj" ELSE inner[k] = COMMA
             THEN Returned([list |-> TRUE,
                            items |-> [k \in 1..((m + 1) \div 2) |-> inner[2 * k - 1].v]])
        ELSE Raised("JSONDecodeError")

\* mutant: the file opened with mode 'w+', which truncates it
open_truncating(content) == <<>>

\* open(file_path, 'r+'): the existing content is kept
open_rplus(content) == content

\* mutant: the loaded collection replaced by the batch instead of extended
extend_replacing(existing_data, res) == res

\* existing_data.extend(results)
extend(existing_data, res) == existing_data \o res

\* file.seek(0); json.dump(existing_data, file, ...): the document overwrites
\* the file from offset 0; the file is not truncated, so what the old content
\* had beyond the document's length stays
write_at_0(content, doc) == doc \o SubSeq(content, Len(doc) + 1, Len(content))

\* open(file_path, 'w') ... json.dump(results, file, ...)
write_new(res) == json_dump(res)

\* mutant: one file path for every data type
file_path_fixed(data_type) == Categories[1]

\* file_path = os.path.join('scraped_data', <version>, f'{data_type}.json'):
\* the category file of data_type (files are keyed by category)
file_path(data_type) == data_type

\* save_results_to_file(results, data_type) on file system fsys.
\* Outcome: [raised, exc, fs].
save_results_to_file(fsys, res, data_type) ==
    LET path == file_path(data_type)
    IN  IF fsys[path] # Absent
        THEN LET opened == open_rplus(fsys[path])
                 loaded == json_load(opened)
                 during == [fsys EXCEPT ![path] = opened]
             IN  IF loaded.raised
                 THEN [raised |-> TRUE, exc |-> loaded.exc, fs |-> during]
                 ELSE IF ~loaded.value.list
                 THEN [raised |-> TRUE, exc |-> "AttributeError", fs |-> during]
                 ELSE [raised |-> FALSE, exc |-> "",
                       fs |-> [fsys EXCEPT ![path] =
                                  write_at_0(opened,
                                             json_dump(extend(loaded.value.items, res)))]]
        ELSE [raised |-> FALSE, exc |-> "",
              fs |-> [fsys EXCEPT ![path] = write_new(res)]]

\* the record of a save_results_to_file call kept in `last`
SaveRecord(data_type, before, res, out) ==
    [called |-> TRUE, cat |-> data_type, before |-> before, batch |-> res,
     raised |-> out.raised]

NoSave == [called |-> FALSE]

-----------------------------------------------------------------------------
(* The web the run sees: seed URLs, the responses each may give, and the   *)
(* bodies of the files linked from the pages.                              *)
(***************************************************************************)

\* scrape_urls: semaphore = asyncio.Semaphore(10)
SemaphoreLimit == 10

\* number of seed URLs of the batch under study in Spec
BatchSeeds == 2

\* number of seed URLs beyond SemaphoreLimit in SpecGate
GateExtra == 1

\* largest batch whose order of completion is recorded in `finished`
MaxOrdered == 3

U1 == <<"h", ":", "x", "/", "1">>

U2 == <<"h", ":", "x", "/", "2">>

U3 == <<"h", ":", "x", "/", "3">>

\* keywords.txt of the runs: one keyword, mixed case
Keywords == << <<"R", "u">> >>

\* session.get failed or raise_for_status() raised (one ClientError for both)
FetchError == [error |-> "ClientError"]

FileA == <<"/", "r", "u", "/", "a", ".", "p", "d", "f">>

FileB == <<"h", ":", "y", "/", "r", "u", "/", "a", ".", "p", "d", "f">>

FileC == <<"/", "b", ".", "p", "d", "f">>

\* matches the keyword, declares a canonical URL and a title, links nothing
PageMatch ==
    [text |-> <<"r", "U">>, canonical |-> LinkTag(<<"h", ":", "c">>),
     title |-> TitleTag(<<"T">>), links |-> <<>>]

\* matches the keyword, no canonical link, no title
PagePlain ==
    [text |-> <<"R", "u", "r">>, canonical |-> NoTag, title |-> NoTag, links |-> <<>>]

\* does not match the keyword
PageNoMatch ==
    [text |-> <<"u", "r">>, canonical |-> NoTag, title |-> TitleTag(<<"T">>),
     links |-> <<FileA>>]

\* matches; links two files with a keyword in their URL and the same last path
\* segment, and one file without a keyword in its URL
PageFiles ==
    [text |-> <<"r", "u">>, canonical |-> NoTag, title |-> TitleTag(<<"T">>),
     links |-> <<FileA, FileC, FileB>>]

\* matches; its <link rel="canonical"> has no href attribute
PageNoHref ==
    [text |-> <<"r", "u">>, canonical |-> LinkTagNoHref, title |-> TitleTag(<<"T">>),
     links |-> <<>>]

\* matches; its <title> has no single string (soup.title.string is None); links a file
PageTitleNone ==
    [text |-> <<"r", "u">>, canonical |-> NoTag, title |-> TitleTag(NoneStr),
     links |-> <<FileA>>]

\* the responses a GET of each seed URL may give
Web(url) ==
    IF url = U1 THEN {FetchError, PageFiles, PageNoHref}
    ELSE IF url = U2 THEN {PageNoMatch, PagePlain, PageTitleNone, PageMatch}
    ELSE {PageMatch}

\* the body a successful GET of a file URL returns
Body(file_url) == IF Contains(file_url, <<"y">>) THEN <<"B">> ELSE <<"A", "A">>

\* a seed list of n URLs: U1, U2, then U3 repeated
SeedList(n) == [i \in 1..n |-> IF i = 1 THEN U1 ELSE IF i = 2 THEN U2 ELSE U3]

-----------------------------------------------------------------------------
(* Tasks *)

\* one task of scrape_urls' list `tasks`: scrape_url_with_limit(...) in v1 and
\* v2, scrape_url(...) in v3.  pc: "ready" (created, not yet run), "waiting"
\* (blocked in semaphore.acquire), "fetching" (awaiting fetch_page),
\* "downloading" (awaiting download_files), "done" (returned ret), "raised"
NewTask(url) ==
    [url |-> url, pc |-> "ready", resp |-> None, data |-> None, ret |-> None, dl |-> <<>>]

Idx == 1..Len(tasks)

InFlightSet == {i \in Idx : tasks[i].pc \in {"fetching", "downloading"}}

\* the number of pipelines that started their fetch and have not finished
InFlight == Cardinality(InFlightSet)

CurCat == Categories[cur]

\* mutant: scrape_url without its except clause
scrape_url_reraise(exc) == Raised(exc)

\* scrape_url: `except Exception as e: print(...); return None`
scrape_url_except(exc) == Returned(None)

\* mutant: download_file without its except clause
download_file_reraise(exc) == "raised"

\* download_file: `except Exception as e: print(...)`: the task ends normally
download_file_except(exc) == "failed"

\* v1, v2: scrape_url_with_limit acquires the semaphore; v3: scrape_urls calls
\* scrape_url directly and the semaphore it created is never acquired
uses_semaphore(v) == v \in {"v1", "v2"}

\* semaphore.release() at the exit of `async with semaphore`, as the task
\* list and semaphore state it leaves: the first waiter, if any, is handed
\* the slot and goes on to its fetch
release(ts, sem, ws) ==
    IF ws = <<>>
    THEN [tasks |-> ts, semaphore |-> sem + 1, waiters |-> ws]
    ELSE [tasks |-> [ts EXCEPT ![Head(ws)].pc = "fetching"],
          semaphore |-> sem, waiters |-> Tail(ws)]

\* mutant: the semaphore acquired and released by hand, the release reached
\* only when scrape_url returned a result
Finish_release_on_result(ts, i, out) ==
    LET ended_ts == IF out.raised
                    THEN [ts EXCEPT ![i].pc = "raised"]
                    ELSE [ts EXCEPT ![i].pc = "done", ![i].ret = out.value]
    IN  IF uses_semaphore(variant) /\ ~out.raised /\ out.value # None
        THEN release(ended_ts, semaphore, waiters)
        ELSE [tasks |-> ended_ts, semaphore |-> semaphore, waiters |-> waiters]

\* task i ends with outcome `out` (Returned(value) or Raised(exc)); in v1 and
\* v2 the semaphore is released on the way out
Finish(ts, i, out) ==
    LET ended == IF out.raised
                 THEN [ts EXCEPT ![i].pc = "raised"]
                 ELSE [ts EXCEPT ![i].pc = "done", ![i].ret = out.value]
    IN  IF uses_semaphore(variant)
        THEN release(ended, semaphore, waiters)
        ELSE [tasks |-> ended, semaphore |-> semaphore, waiters |-> waiters]

\* task i ended: the record of the order in which the batch's tasks ended
ended(done, i) == IF Len(tasks) <= MaxOrdered THEN Append(done, i) ELSE done

\* os.path.join('scraped_data', 'v3', data_type, data['title']): TypeError when
\* the title is None
save_dir(data_type, title) ==
    IF title = NoneStr THEN Raised("TypeError") ELSE Returned(<<data_type, title>>)

\* download_files: one download_file task per file URL, in order
download_tasks(files, dir) ==
    [k \in 1..Len(files) |->
        [file_url |-> files[k], save_path |-> dir \o <<basename(files[k])>>, st |-> "get"]]

\* the content of the downloaded file at path p (Absent when there is none)
DiskAt(d, p) == IF \E e \in d : e.path = p THEN (CHOOSE e \in d : e.path = p).content ELSE Absent

DiskPut(d, p, content) == {e \in d : e.path # p} \cup {[path |-> p, content |-> content]}

\* file.write(await response.read()) through a handle opened at offset 0
file_write(content, body) == body \o SubSeq(content, Len(body) + 1, Len(content))

\* scrape_url after `await fetch_page(session, url)` gave response r, up to its
\* return or its next await: either it ends with outcome `out`, or (v3 only)
\* it awaits download_files with the download tasks `dl`
scrape_url_step(v, url, kws, data_type, r) ==
    LET ends(out) == [await |-> FALSE, out |-> out, data |-> None, dl |-> <<>>]
    IN  IF r = FetchError THEN ends(scrape_url_except("ClientError"))
        ELSE LET x == extract_data(v, r, kws, url)
             IN  IF x.raised THEN ends(scrape_url_except(x.exc))
                 ELSE IF v # "v3" THEN ends(Returned(x.value))
                 ELSE IF x.value = None THEN ends(Returned(None))
                 ELSE IF x.value.files = <<>> THEN ends(Returned(x.value))
                 ELSE LET d == save_dir(data_type, x.value.title)
                      IN  IF d.raised THEN ends(scrape_url_except(d.exc))
                          ELSE [await |-> TRUE, out |-> None, data |-> x.value,
                                dl |-> download_tasks(x.value.files, d.value)]

\* mutant: download_files without the await on its gather
gather_downloads_unawaited(sts) == TRUE

\* download_files: `await asyncio.gather(*tasks)` returns when every
\* download_file task ended; sts are the tasks' states
gather_downloads(sts) == sts \subseteq {"ok", "failed"}

\* mutant: scrape_urls going on as soon as one task returned
gather_returns_first(ts) == \E i \in 1..Len(ts) : ts[i].pc = "done"

\* scrape_urls: `await asyncio.gather(*tasks)` returns when every task returned
gather_returns(ts) == \A i \in 1..Len(ts) : ts[i].pc = "done"

\* mutant: the return values collected in the order the tasks ended
\* (asyncio.as_completed), where that order is recorded
gather_as_completed(ts) ==
    IF Len(finished) = Len(ts) THEN [k \in 1..Len(ts) |-> ts[finished[k]].ret]
    ELSE [i \in 1..Len(ts) |-> ts[i].ret]

\* results = await asyncio.gather(*tasks): the tasks' return values, in task order
gather(ts) == [i \in 1..Len(ts) |-> ts[i].ret]

\* mutant: the filter left out
filter_results_none(rs) == rs

\* results = [result for result in results if result]
filter_results(rs) == SelectSeq(rs, LAMBDA r : r # None)

\* mutant: scrape_urls without its except clause
escapes_try_always(raised) == raised

\* scrape_urls: `try: ... except Exception as e: print(...)`: whether an
\* exception raised inside the try block leaves scrape_urls
escapes_try(raised) == FALSE

Running == mainPc = "run" /\ cur > 0 /\ status[CurCat] = "running"

\* the event loop polls for I/O completions only when no callback is ready:
\* the tasks gather created all run to their first await (in creation order)
\* before any GET completes
Polling == Running /\ \A i \in Idx : tasks[i].pc # "ready"

-----------------------------------------------------------------------------
(* Actions *)

\* main: await scrape_urls(<list>, keywords, <category>) for the next category;
\* scrape_urls creates the semaphore and the task list
scrape_urls_begin ==
    /\ mainPc = "run"
    /\ cur < Len(Categories)
    /\ cur > 0 => status[CurCat] \in {"saved", "savefailed"}
    /\ cur' = cur + 1
    /\ status' = [status EXCEPT ![Categories[cur + 1]] = "running"]
    /\ semaphore' = SemaphoreLimit
    /\ waiters' = <<>>
    /\ tasks' = [i \in 1..Len(seeds[Categories[cur + 1]]) |->
                    NewTask(seeds[Categories[cur + 1]][i])]
    /\ results' = None
    /\ finished' = <<>>
    /\ UNCHANGED <<variant, keywords, seeds, fs0, mainPc, fs, disk, saved, last, calls, xin, xout>>

\* the event loop runs the next created task up to its first await: in v1/v2
\* `async with semaphore` (taken at once if free, else the task queues), then
\* the GET of fetch_page
task_start ==
    /\ Running
    /\ \E i \in Idx :
        /\ tasks[i].pc = "ready"
        /\ \A j \in 1..(i - 1) : tasks[j].pc # "ready"
        /\ IF ~uses_semaphore(variant)
           THEN /\ tasks' = [tasks EXCEPT ![i].pc = "fetching"]
                /\ UNCHANGED <<semaphore, waiters>>
           ELSE IF semaphore > 0 /\ waiters = <<>>
           THEN /\ tasks' = [tasks EXCEPT ![i].pc = "fetching"]
                /\ semaphore' = semaphore - 1
                /\ UNCHANGED waiters
           ELSE /\ tasks' = [tasks EXCEPT ![i].pc = "waiting"]
                /\ waiters' = Append(waiters, i)
                /\ UNCHANGED semaphore
    /\ UNCHANGED <<finished, variant, keywords, seeds, fs0, mainPc, cur, status, results, fs, disk,
                   saved, last, calls, xin, xout>>

\* the GET of task i completes (with a page or an error) and scrape_url runs on
\* to its return or to the await of download_files
fetch_page_done(i) ==
    /\ Polling
    /\ tasks[i].pc = "fetching"
    /\ \E r \in Web(tasks[i].url) :
        LET step == scrape_url_step(variant, tasks[i].url, keywords, CurCat, r)
            seen == [tasks EXCEPT ![i].resp = r]
            f == Finish(seen, i, step.out)
        IN  IF step.await
            THEN /\ tasks' = [seen EXCEPT ![i].pc = "downloading",
                                          ![i].data = step.data, ![i].dl = step.dl]
                 /\ UNCHANGED <<semaphore, waiters>>
            ELSE /\ tasks' = f.tasks
                 /\ semaphore' = f.semaphore
                 /\ waiters' = f.waiters
    /\ finished' = (IF tasks'[i].pc \in {"done", "raised"} THEN ended(finished, i) ELSE finished)
    /\ UNCHANGED <<variant, keywords, seeds, fs0, mainPc, cur, status, results, fs, disk,
                   saved, last, calls, xin, xout>>

\* download_file k of task i: the GET's response arrives; on a success status
\* the target is opened 'wb' (created or truncated) and the body is awaited, on
\* an error status or a transport error the except clause reports it
download_response(i, k) ==
    /\ Polling
    /\ tasks[i].pc = "downloading"
    /\ tasks[i].dl[k].st = "get"
    /\ \E ok \in BOOLEAN :
        IF ok
        THEN /\ disk' = DiskPut(disk, tasks[i].dl[k].save_path, <<>>)
             /\ tasks' = [tasks EXCEPT ![i].dl[k].st = "read"]
        ELSE /\ tasks' = [tasks EXCEPT ![i].dl[k].st = download_file_except("ClientError")]
             /\ UNCHANGED disk
    /\ UNCHANGED <<finished, variant, keywords, seeds, fs0, mainPc, cur, status, semaphore, waiters,
                   results, fs, saved, last, calls, xin, xout>>

\* download_file k of task i: response.read() completes and the body is
\* written, or it fails and the except clause reports it
download_body(i, k) ==
    /\ Polling
    /\ tasks[i].pc = "downloading"
    /\ tasks[i].dl[k].st = "read"
    /\ \E ok \in BOOLEAN :
        IF ok
        THEN /\ disk' = DiskPut(disk, tasks[i].dl[k].save_path,
                                file_write(DiskAt(disk, tasks[i].dl[k].save_path),
                                           Body(tasks[i].dl[k].file_url)))
             /\ tasks' = [tasks EXCEPT ![i].dl[k].st = "ok"]
        ELSE /\ tasks' = [tasks EXCEPT ![i].dl[k].st = download_file_except("ClientError")]
             /\ UNCHANGED disk
    /\ UNCHANGED <<finished, variant, keywords, seeds, fs0, mainPc, cur, status, semaphore, waiters,
                   results, fs, saved, last, calls, xin, xout>>

\* download_files of task i: `await asyncio.gather(*tasks)` returns once every
\* download_file ended (or raises as soon as one raised), and scrape_url
\* returns data (or handles the exception)
download_files_return(i) ==
    /\ Polling
    /\ tasks[i].pc = "downloading"
    /\ LET sts == {tasks[i].dl[k].st : k \in 1..Len(tasks[i].dl)}
           out == IF "raised" \in sts THEN scrape_url_except("ClientError")
                  ELSE Returned(tasks[i].data)
           f == Finish(tasks, i, out)
       IN  /\ IF "raised" \in sts THEN TRUE ELSE gather_downloads(sts)
           /\ tasks' = f.tasks
           /\ semaphore' = f.semaphore
           /\ waiters' = f.waiters
    /\ finished' = ended(finished, i)
    /\ UNCHANGED <<variant, keywords, seeds, fs0, mainPc, cur, status, results, fs, disk,
                   saved, last, calls, xin, xout>>

\* scrape_urls: asyncio.gather returns (every task returned) or raises (a task
\* raised); then the filter, save_results_to_file, the except clause, and
\* `return results`; main goes on to the next category or ends
gather_done ==
    /\ Polling
    /\ IF \E i \in Idx : tasks[i].pc = "raised" THEN TRUE
       ELSE gather_returns(tasks)
    /\ IF \E i \in Idx : tasks[i].pc = "raised"
       THEN \* except: print; `return results` with results unbound: UnboundLocalError
            /\ results' = None
            /\ status' = [status EXCEPT ![CurCat] = "aborted"]
            /\ mainPc' = "crashed"
            /\ UNCHANGED <<fs, saved, last, calls>>
       ELSE LET res == filter_results(gather(tasks))
                out == save_results_to_file(fs, res, CurCat)
            IN  /\ results' = res
                /\ fs' = out.fs
                /\ last' = SaveRecord(CurCat, fs[CurCat], res, out)
                /\ calls' = [calls EXCEPT ![CurCat] = @ + 1]
                /\ saved' = IF out.raised THEN saved
                            ELSE [saved EXCEPT ![CurCat] = @ \o res]
                /\ status' = [status EXCEPT ![CurCat] =
                                 IF out.raised THEN "savefailed" ELSE "saved"]
                /\ mainPc' = IF escapes_try(out.raised) THEN "crashed"
                             ELSE IF cur = Len(Categories) THEN "done"
                             ELSE "run"
    /\ UNCHANGED <<finished, variant, keywords, seeds, fs0, cur, semaphore, waiters, tasks, disk,
                   xin, xout>>

Next ==
    \/ scrape_urls_begin
    \/ task_start
    \/ \E i \in Idx : fetch_page_done(i)
    \/ \E i \in Idx : \E k \in 1..Len(tasks[i].dl) : download_response(i, k)
    \/ \E i \in Idx : \E k \in 1..Len(tasks[i].dl) : download_body(i, k)
    \/ \E i \in Idx : download_files_return(i)
    \/ gather_done

-----------------------------------------------------------------------------
(* Initial states *)

\* a PageResult of an earlier run, as v1 writes it
OldEntry ==
    [url |-> <<"h", ":", "o">>, title |-> NoTitle, keywords_matched |-> Keywords,
     content |-> <<"r", "u">>]

\* a category file written by an earlier run of the script
FileValid == json_dump(<<OldEntry>>)

\* a category file that is not JSON
FileCorrupt == <<LB, WS, Junk>>

\* a category file holding an empty JSON array laid out over several lines
FilePadded == <<LB, WS, WS, RB>>

\* a category file holding one JSON object instead of an array
FileDict == <<Obj(OldEntry)>>

ExistingFiles == {FileValid, FileCorrupt, FilePadded, FileDict}

\* the category files before the run: all absent, or one of them present
FsConfigs ==
    {[c \in CategorySet |-> Absent]} \cup
    {[c \in CategorySet |-> IF c = c0 THEN f ELSE Absent] :
        c0 \in CategorySet, f \in ExistingFiles}

\* the seed files: one category lists BatchSeeds URLs, the others the same URL
\* twice or nothing (a missing seed file reads as the empty list)
SeedConfigs ==
    {[c \in CategorySet |-> IF c = c0 THEN SeedList(BatchSeeds) ELSE other] :
        c0 \in CategorySet, other \in {<<>>, <<U3, U3>>}}

InitCommon ==
    /\ mainPc = "run"
    /\ cur = 0
    /\ status = [c \in CategorySet |-> "pending"]
    /\ semaphore = SemaphoreLimit
    /\ waiters = <<>>
    /\ tasks = <<>>
    /\ results = None
    /\ disk = {}
    /\ saved = [c \in CategorySet |-> <<>>]
    /\ last = NoSave
    /\ calls = [c \in CategorySet |-> 0]
    /\ finished = <<>>
    /\ xin = None
    /\ xout = None

Init ==
    /\ variant \in Variants
    /\ keywords = Keywords
    /\ seeds \in SeedConfigs
    /\ fs \in FsConfigs
    /\ fs0 = fs
    /\ InitCommon

Spec == Init /\ [][Next]_vars

\* a run whose first category lists more seed URLs than the semaphore has
\* slots (the other seed files are missing)
InitGate ==
    /\ variant \in Variants
    /\ keywords = Keywords
    /\ seeds = [c \in CategorySet |->
                   IF c = Categories[1] THEN SeedList(SemaphoreLimit + GateExtra) ELSE <<>>]
    /\ fs = [c \in CategorySet |-> Absent]
    /\ fs0 = fs
    /\ InitCommon

SpecGate == InitGate /\ [][Next]_vars

\* a seed list of n URLs whose pages all match
SeedListSame(n) == [i \in 1..n |-> U3]

\* the seed files of the runs of SpecLive: the last category lists
\* BatchSeeds URLs and the others one URL each, or the first category lists
\* more seed URLs than the semaphore has slots
LiveSeedConfigs ==
    { [c \in CategorySet |->
          IF c = Categories[Len(Categories)] THEN SeedList(BatchSeeds) ELSE <<U3>>],
      [c \in CategorySet |->
          IF c = Categories[1] THEN SeedListSame(SemaphoreLimit + GateExtra) ELSE <<>>] }

\* the category files of the runs of SpecLive: none, or a corrupt first one
LiveFsConfigs ==
    { [c \in CategorySet |-> Absent],
      [c \in CategorySet |-> IF c = Categories[1] THEN FileCorrupt ELSE Absent] }

InitLive ==
    /\ variant \in Variants
    /\ keywords = Keywords
    /\ seeds \in LiveSeedConfigs
    /\ fs \in LiveFsConfigs
    /\ fs0 = fs
    /\ InitCommon

\* asyncio.run(main()): the event loop runs every ready callback (main's
\* continuation, a created task, a task woken by gather or by the semaphore),
\* and every GET and every body read completes (with success or failure)
Fairness ==
    /\ WF_vars(scrape_urls_begin)
    /\ WF_vars(task_start)
    /\ WF_vars(\E i \in Idx : fetch_page_done(i))
    /\ WF_vars(\E i \in Idx : \E k \in 1..Len(tasks[i].dl) : download_response(i, k))
    /\ WF_vars(\E i \in Idx : \E k \in 1..Len(tasks[i].dl) : download_body(i, k))
    /\ WF_vars(\E i \in Idx : download_files_return(i))
    /\ WF_vars(gather_done)

SpecLive == InitLive /\ [][Next]_vars /\ Fairness

-----------------------------------------------------------------------------
(* The result store on its own: save_results_to_file called again and      *)
(* again (one call per run of the script and category) on files that       *)
(* persist between the runs.                                               *)
(***************************************************************************)

\* number of save_results_to_file calls in SpecStore
MaxSaves == 2

\* PageResults as extract_data builds them
Entry1 == extract_data("v1", PageMatch, Keywords, U3).value

Entry2 == extract_data("v1", PagePlain, Keywords, U2).value

\* the batches handed to save_results_to_file
StoreBatches == {<<>>, <<Entry1>>, <<Entry2, Entry1>>}

TotalCalls == calls[Categories[1]] + calls[Categories[2]] + calls[Categories[3]]
              + calls[Categories[4]]

\* scrape_urls' call save_results_to_file(results, data_type)
save_call(c, batch) ==
    /\ mainPc = "store"
    /\ TotalCalls < MaxSaves
    /\ LET out == save_results_to_file(fs, batch, c)
       IN  /\ fs' = out.fs
           /\ last' = SaveRecord(c, fs[c], batch, out)
           /\ saved' = IF out.raised THEN saved ELSE [saved EXCEPT ![c] = @ \o batch]
           /\ calls' = [calls EXCEPT ![c] = @ + 1]
    /\ UNCHANGED <<finished, variant, keywords, seeds, fs0, mainPc, cur, status, semaphore, waiters,
                   tasks, results, disk, xin, xout>>

NextStore == \E c \in CategorySet : \E batch \in StoreBatches : save_call(c, batch)

InitStore ==
    /\ variant = "v1"
    /\ keywords = Keywords
    /\ seeds = [c \in CategorySet |-> <<>>]
    /\ fs \in FsConfigs
    /\ fs0 = fs
    /\ mainPc = "store"
    /\ cur = 0
    /\ status = [c \in CategorySet |-> "pending"]
    /\ semaphore = SemaphoreLimit
    /\ waiters = <<>>
    /\ tasks = <<>>
    /\ results = None
    /\ disk = {}
    /\ saved = [c \in CategorySet |-> <<>>]
    /\ last = NoSave
    /\ calls = [c \in CategorySet |-> 0]
    /\ finished = <<>>
    /\ xin = None
    /\ xout = None

SpecStore == InitStore /\ [][NextStore]_vars

-----------------------------------------------------------------------------
(* extract_data on its own: one call on bounded inputs                     *)
(***************************************************************************)

\* longest page text in SpecExtract
MaxTextLen == 2

\* longest keyword list in SpecExtract
MaxKeywords == 2

Seqs(S, n) == UNION {[1..k -> S] : k \in 0..n}

TextChars == {"r", "R", "u"}

KeywordPool == {<<"R", "u">>, <<"r">>}

FileGif == <<"/", "r", "u", "/", "a", ".", "g", "i", "f">>

FileUpper == <<"/", "R", "U", "/", "a", ".", "P", "D", "F">>

FileHtml == <<"r", "u", ".", "h", "t", "m", "l">>

LinkLists ==
    {<<>>, <<FileA>>, <<FileC>>, <<FileGif>>, <<FileUpper>>, <<FileHtml>>,
     <<FileB, FileC, FileA>>}

ExtractPages ==
    [text : Seqs(TextChars, MaxTextLen),
     canonical : {NoTag, LinkTag(<<"h", ":", "c">>), LinkTagNoHref},
     title : {NoTag, TitleTag(<<"T">>), TitleTag(NoneStr)},
     links : LinkLists]

ExtractInputs ==
    [v : Variants, page : ExtractPages, kws : Seqs(KeywordPool, MaxKeywords),
     base_url : {U1}]

\* data = extract_data(page_content, keywords[, url])
extract_call ==
    /\ mainPc = "extract"
    /\ xout = None
    /\ xout' = extract_data(xin.v, xin.page, xin.kws, xin.base_url)
    /\ UNCHANGED <<finished, variant, keywords, seeds, fs0, mainPc, cur, status, semaphore, waiters,
                   tasks, results, fs, disk, saved, last, calls, xin>>

NextExtract == extract_call

InitExtract ==
    /\ xin \in ExtractInputs
    /\ xout = None
    /\ variant = xin.v
    /\ keywords = xin.kws
    /\ seeds = [c \in CategorySet |-> <<>>]
    /\ fs = [c \in CategorySet |-> Absent]
    /\ fs0 = fs
    /\ mainPc = "extract"
    /\ cur = 0
    /\ status = [c \in CategorySet |-> "pending"]
    /\ semaphore = SemaphoreLimit
    /\ waiters = <<>>
    /\ tasks = <<>>
    /\ results = None
    /\ disk = {}
    /\ saved = [c \in CategorySet |-> <<>>]
    /\ last = NoSave
    /\ calls = [c \in CategorySet |-> 0]
    /\ finished = <<>>

SpecExtract == InitExtract /\ [][NextExtract]_vars

-----------------------------------------------------------------------------
(* Claims *)

\* the current batch's gather returned and its save was attempted; `tasks`
\* and `results` are still those of that batch
BatchEnded == cur > 0 /\ status[CurCat] \in {"saved", "savefailed"}

\* the number of positions of sequence sq that hold x
Count(sq, x) == Cardinality({k \in 1..Len(sq) : sq[k] = x})

\* the collection a category file holds, when it parses as one
IsCollection(content) ==
    /\ content # Absent
    /\ ~json_load(content).raised
    /\ json_load(content).value.list

Collection(content) == json_load(content).value.items

\* sq ends with suffix suf
EndsWithSeq(sq, suf) ==
    Len(sq) >= Len(suf) /\ SubSeq(sq, Len(sq) - Len(suf) + 1, Len(sq)) = suf

\* C1: in a batch run of any variant (v1, v2, v3), whatever the number of seed
\* URLs, at most 10 pipelines are in flight (fetch started, pipeline not yet
\* finished) at every instant; a pipeline beyond the tenth waits for a slot
\* before it starts its fetch.
C1_AtMostTenInFlight == Running => InFlight <= SemaphoreLimit

\* task j's page was fetched and its text contains a keyword
FetchedAndMatches(j) ==
    /\ tasks[j].resp \notin {None, FetchError}
    /\ matched_keywords(keywords, Lower(tasks[j].resp.text)) # <<>>

\* C2: when the fetch of one seed URL of a batch fails, the batch is not
\* aborted, every other seed URL whose page is fetched and matches a keyword
\* still has its result in the list passed to save_results_to_file, and (when
\* the category file was absent or written by the script, and the save
\* returns) that list is at the end of the persisted collection.
C2_FailureDoesNotStopSiblings ==
    (cur > 0 /\ \E i \in Idx : tasks[i].resp = FetchError) =>
        /\ mainPc # "crashed"
        /\ \A i \in Idx : tasks[i].pc # "raised"
        /\ BatchEnded =>
            /\ \A j \in Idx :
                FetchedAndMatches(j) =>
                    /\ tasks[j].ret # None
                    /\ \E k \in 1..Len(results) : results[k] = tasks[j].ret
            /\ last.called /\ last.cat = CurCat /\ last.batch = results
            /\ (~last.raised /\ fs0[CurCat] \in {Absent, FileValid}) =>
                /\ IsCollection(fs[CurCat])
                /\ EndsWithSeq(Collection(fs[CurCat]), results)

\* the tasks of the batch that returned a PageResult
Succeeded == {i \in Idx : tasks[i].pc = "done" /\ tasks[i].ret # None}

\* C3: whatever the interleaving, the list scrape_urls collects and hands to
\* save_results_to_file holds exactly one entry per seed-URL occurrence whose
\* pipeline returned a PageResult, and no entry for a pipeline that failed or
\* returned None: nothing lost, nothing duplicated.
C3_CollectedExactlyOnce ==
    BatchEnded =>
        /\ Len(results) = Cardinality(Succeeded)
        /\ \A k \in 1..Len(results) : results[k] # None
        /\ \A i \in Succeeded :
            Count(results, tasks[i].ret)
                = Cardinality({j \in Succeeded : tasks[j].ret = tasks[i].ret})
        /\ last.called /\ last.cat = CurCat /\ last.batch = results

\* C3 witness: a batch ended in which one pipeline failed, one returned a
\* PageResult, and two pipelines returned equal PageResults
C3_Witness ==
    /\ BatchEnded
    /\ \E i \in Idx : tasks[i].pc = "done" /\ tasks[i].ret = None
    /\ Len(results) >= 1
    /\ \E c \in CategorySet : status[c] = "saved" /\ Len(saved[c]) = 2
                              /\ saved[c][1] = saved[c][2]

\* the file system with every category file absent
EmptyFs == [c \in CategorySet |-> Absent]

\* C4: appending is concatenation.  For a category whose file was absent
\* before the first save, after any sequence of saves the file holds the
\* collection that is the concatenation of the saved batches in save order
\* (nothing removed, reordered or de-duplicated); in particular saving A and
\* then B leaves the same file as saving A followed by B in one call.
C4_AppendIsConcatenation ==
    /\ \A c \in CategorySet :
        (fs0[c] = Absent /\ calls[c] > 0) =>
            /\ IsCollection(fs[c])
            /\ Collection(fs[c]) = saved[c]
    /\ \A A \in StoreBatches : \A B \in StoreBatches :
        LET first == save_results_to_file(EmptyFs, A, Categories[1])
            second == save_results_to_file(first.fs, B, Categories[1])
            once == save_results_to_file(EmptyFs, A \o B, Categories[1])
        IN  ~second.raised /\ ~once.raised /\ second.fs = once.fs

\* C4 witness: two non-empty batches were saved, one after the other, into a
\* file that did not exist before
C4_Witness ==
    \E c \in CategorySet :
        /\ fs0[c] = Absent
        /\ calls[c] = 2
        /\ saved[c] = <<Entry1, Entry2, Entry1>>

\* C5: a save against an existing category file that does not parse as JSON
\* fails with an error that leaves save_results_to_file, and the file is left
\* exactly as it was.
C5_CorruptFileLeftUntouched ==
    (last.called /\ last.before # Absent /\ json_load(last.before).raised) =>
        /\ last.raised
        /\ fs[last.cat] = last.before

\* C5 witness: a non-empty batch was saved against the corrupt file
C5_Witness ==
    /\ last.called
    /\ last.before = FileCorrupt
    /\ last.batch # <<>>
    /\ last.raised

\* C6: after every save that returns normally (create or append) the whole
\* category file parses as one well-formed collection, with nothing of the
\* previous content left after the newly written document.
C6_FileWellFormedAfterSave ==
    (last.called /\ ~last.raised) =>
        /\ IsCollection(fs[last.cat])
        /\ fs[last.cat] = json_dump(Collection(fs[last.cat]))

\* C7: when persisting a category's batch raises, the exception is handled
\* inside scrape_urls: main does not crash and goes on to attempt every later
\* category, in the order articles, books, news, regular.
C7_SaveFailureDoesNotStopRun ==
    (\E c \in CategorySet : status[c] = "savefailed") =>
        /\ mainPc \in {"run", "done"}
        /\ (BatchEnded /\ cur < Len(Categories)) => ENABLED scrape_urls_begin
        /\ \A k \in 1..Len(Categories) :
            status[Categories[k]] # "pending" =>
                \A j \in 1..(k - 1) : status[Categories[j]] \in {"saved", "savefailed"}
        /\ mainPc = "done" =>
            \A c \in CategorySet : status[c] \in {"saved", "savefailed"} /\ calls[c] = 1

\* C7 witness: the run ended after the save of the first category raised and
\* the three later categories were saved
C7_Witness ==
    /\ mainPc = "done"
    /\ status[Categories[1]] = "savefailed"
    /\ \A k \in 2..Len(Categories) : status[Categories[k]] = "saved"
    /\ Len(saved[Categories[4]]) > 0

\* the page's text contains a keyword, case-insensitively
HasKeyword(page, kws) ==
    \E k \in 1..Len(kws) : Contains(Lower(page.text), Lower(kws[k]))

\* the outcome of an extract_data call is a PageResult
IsPageResult(out) == out # None /\ ~out.raised /\ out.value # None

\* C8: every PageResult extract_data returns has a non-empty keywords_matched;
\* a page whose text contains at least one keyword (case-insensitive
\* substring) produces a PageResult, and a page containing none produces no
\* result and no error.
C8_ResultIffKeyword ==
    xout # None =>
        /\ IsPageResult(xout) => xout.value.keywords_matched # <<>>
        /\ HasKeyword(xin.page, xin.kws) => IsPageResult(xout)
        /\ ~HasKeyword(xin.page, xin.kws) => xout = Returned(None)

\* C9: in every PageResult of every variant, url is the canonical URL the
\* page declares when it has a <link rel="canonical">, and otherwise the URL
\* that was fetched, never a missing value.
C9_UrlCanonicalOrFetched ==
    IsPageResult(xout) =>
        /\ xout.value.url # NoneStr
        /\ xout.value.url = IF xin.page.canonical.tag THEN xin.page.canonical.href
                            ELSE xin.base_url

\* C10: in v3 a failed download (error status or transport error) stays with
\* that one file: nothing is raised out of download_file or download_files,
\* and when scrape_url returns every download of the page has ended, with
\* success or failure, and the page's PageResult is what scrape_url returns
\* and what the batch collects.
C10_DownloadFailureContained ==
    \A i \in Idx :
        tasks[i].dl # <<>> =>
            /\ tasks[i].pc \in {"downloading", "done"}
            /\ \A k \in 1..Len(tasks[i].dl) : tasks[i].dl[k].st # "raised"
            /\ tasks[i].pc = "done" =>
                /\ \A k \in 1..Len(tasks[i].dl) : tasks[i].dl[k].st \in {"ok", "failed"}
                /\ tasks[i].ret # None
                /\ tasks[i].ret = tasks[i].data
                /\ BatchEnded => \E k \in 1..Len(results) : results[k] = tasks[i].ret

\* C10 witness: a batch ended in which a page had one download fail and a
\* sibling download succeed, and its PageResult was collected
C10_Witness ==
    /\ BatchEnded
    /\ \E i \in Idx :
        /\ tasks[i].pc = "done"
        /\ \E k \in 1..Len(tasks[i].dl) : tasks[i].dl[k].st = "failed"
        /\ \E k \in 1..Len(tasks[i].dl) : tasks[i].dl[k].st = "ok"
        /\ \E k \in 1..Len(results) : results[k] = tasks[i].ret /\ results[k] # None

\* the set of elements of sequence sq
Range(sq) == {sq[k] : k \in 1..Len(sq)}

\* the allow-list of file extensions the file discovery is specified with
AllowList ==
    { <<".", "p", "d", "f">>, <<".", "d", "o", "c", "x">>, <<".", "x", "l", "s", "x">>,
      <<".", "p", "p", "t", "x">>, <<".", "j", "p", "g">>, <<".", "j", "p", "e", "g">>,
      <<".", "p", "n", "g">>, <<".", "g", "i", "f">>, <<".", "z", "i", "p">>,
      <<".", "r", "a", "r">> }

\* the file list of a PageResult of v2 or v3
FilesOf(v, data) == IF v = "v2" THEN data.downloadable_files ELSE data.files

\* the anchors' URLs the file discovery of variant v decides on, in document
\* order: the raw href in v2, the href resolved against the page URL in v3
AnchorUrls(v, page, base_url) ==
    IF v = "v2" THEN page.links
    ELSE [i \in 1..Len(page.links) |-> urljoin(base_url, page.links[i])]

\* C11: in a PageResult of v2 or v3 the file list holds an anchor's URL
\* exactly when its extension is in the allow-list (pdf, docx, xlsx, pptx,
\* jpg, jpeg, png, gif, zip, rar) and the URL contains a keyword
\* case-insensitively: a URL with a (lower-case) allow-listed extension and a
\* keyword is included, a URL without a keyword or without an allow-listed
\* extension (in any letter case) is excluded, and the included URLs keep
\* document order.
C11_FilesAllowListedAndKeyword ==
    (IsPageResult(xout) /\ xin.v \in {"v2", "v3"}) =>
        LET files == FilesOf(xin.v, xout.value)
            urls == AnchorUrls(xin.v, xin.page, xin.base_url)
        IN  /\ files = SelectSeq(urls, LAMBDA u : u \in Range(files))
            /\ \A u \in Range(urls) :
                /\ (KeywordInUrl(xin.kws, u) /\ \E e \in AllowList : EndsWith(u, e))
                       => u \in Range(files)
                /\ u \in Range(files)
                       => /\ KeywordInUrl(xin.kws, u)
                          /\ \E e \in AllowList : EndsWith(Lower(u), e)

\* main returned: every category's batch was run, every pipeline of the last
\* batch is in a terminal state, and every category's save was attempted
RunCompleted ==
    /\ mainPc = "done"
    /\ \A c \in CategorySet : status[c] \in {"saved", "savefailed"} /\ calls[c] = 1
    /\ \A i \in Idx : tasks[i].pc = "done"
    /\ waiters = <<>>

\* C12: when every network request eventually completes (with success or
\* failure) and the event loop runs every ready task, every batch eventually
\* finishes (each pipeline terminal, the save attempted), all four categories
\* are attempted, and main returns normally, whatever URLs failed.
C12_RunTerminates == <>RunCompleted

\* C12 witness: main returned after a run in which a fetch of the last batch
\* failed and the save of the first category raised
C12_Witness ==
    /\ RunCompleted
    /\ \E i \in Idx : tasks[i].resp = FetchError
    /\ status[Categories[1]] = "savefailed"

\* C13: within one seed URL's pipeline of v3, in every interleaving, the
\* extraction's result exists only once the fetch completed with a page, the
\* download tasks exist only once the extraction returned a PageResult (and
\* are those of its files, in order), and the pipeline has returned only
\* once every download of the page ended with success or failure; what it
\* returns is the extraction's result.
C13_PipelineOrder ==
    variant = "v3" =>
        \A i \in Idx :
            /\ tasks[i].pc \in {"ready", "waiting", "fetching"} =>
                   tasks[i].resp = None /\ tasks[i].data = None /\ tasks[i].dl = <<>>
            /\ tasks[i].data # None =>
                   /\ tasks[i].resp \notin {None, FetchError}
                   /\ Returned(tasks[i].data)
                          = extract_data("v3", tasks[i].resp, keywords, tasks[i].url)
            /\ tasks[i].dl # <<>> =>
                   /\ tasks[i].data # None
                   /\ [k \in 1..Len(tasks[i].dl) |-> tasks[i].dl[k].file_url]
                          = tasks[i].data.files
            /\ \A k \in 1..Len(tasks[i].dl) :
                   tasks[i].dl[k].st # "get" => tasks[i].pc \in {"downloading", "done"}
            /\ tasks[i].pc = "done" =>
                   /\ \A k \in 1..Len(tasks[i].dl) : tasks[i].dl[k].st \in {"ok", "failed"}
                   /\ tasks[i].dl # <<>> => tasks[i].ret = tasks[i].data

\* C13 witness: a v3 pipeline returned after its two downloads ended, while a
\* sibling pipeline was still fetching
C13_Witness ==
    /\ variant = "v3"
    /\ \E i \in Idx : \E j \in Idx :
        /\ tasks[i].pc = "done"
        /\ Len(tasks[i].dl) = 2
        /\ \A k \in 1..2 : tasks[i].dl[k].st = "ok"
        /\ tasks[j].pc = "fetching"

\* C14: a category's file is mutated only at the end of its batch: every
\* step that calls save_results_to_file (or changes a category file) is taken
\* when every pipeline of the current batch is in a terminal state, none in
\* flight or waiting, and it is the first and only such call of the batch.
C14_SaveOnlyAtBatchEnd ==
    [][(fs' # fs \/ calls' # calls) =>
          /\ cur > 0
          /\ status[CurCat] = "running"
          /\ \A i \in Idx : tasks[i].pc \in {"done", "raised"}
          /\ InFlight = 0
          /\ waiters = <<>>
          /\ calls[CurCat] = 0
          /\ calls'[CurCat] = 1
          /\ tasks' = tasks]_vars

\* C14 witness: a batch of several pipelines ended and its one save changed
\* the category's file
C14_Witness ==
    /\ BatchEnded
    /\ Len(tasks) = BatchSeeds
    /\ \A i \in Idx : tasks[i].pc = "done"
    /\ calls[CurCat] = 1
    /\ fs[CurCat] # fs0[CurCat]
    /\ Len(results) = BatchSeeds

\* C15: categories are processed strictly one after the other: at most one
\* category's batch is running, pipelines are in flight (or waiting) only
\* while their own category's batch is running and before its save, and so
\* the number of pipelines in flight over the whole run (all four categories
\* together) never exceeds 10.
C15_SequentialPeakAtMostTen ==
    /\ Cardinality({c \in CategorySet : status[c] = "running"}) <= 1
    /\ (InFlight > 0 \/ waiters # <<>>) =>
           /\ Running
           /\ calls[CurCat] = 0
           /\ \A k \in (cur + 1)..Len(Categories) : status[Categories[k]] = "pending"
           /\ \A k \in 1..(cur - 1) : status[Categories[k]] \in {"saved", "savefailed"}
    /\ InFlight <= SemaphoreLimit

\* the download tasks of pipeline i that write to path p
WritersOf(i, p) == {k \in 1..Len(tasks[i].dl) : tasks[i].dl[k].save_path = p}

\* C16: in v3, once all downloads of a page's file set have ended, every
\* target file whose downloads all succeeded holds exactly the full response
\* body of one of the downloads mapped to that name, in every interleaving,
\* also when two files of the page share their last path segment and their
\* downloads overlap.
C16_TargetHoldsOneFullBody ==
    \A i \in Idx :
        (/\ tasks[i].dl # <<>>
         /\ \A k \in 1..Len(tasks[i].dl) : tasks[i].dl[k].st \in {"ok", "failed"}) =>
            \A p \in {tasks[i].dl[k].save_path : k \in 1..Len(tasks[i].dl)} :
                (\A k \in WritersOf(i, p) : tasks[i].dl[k].st = "ok") =>
                    \E k \in WritersOf(i, p) :
                        DiskAt(disk, p) = Body(tasks[i].dl[k].file_url)

\* the first position of x in sequence sq
FirstIndex(sq, x) == Min({k \in 1..Len(sq) : sq[k] = x})

\* C17: for every page and keyword list, keywords_matched lists exactly the
\* keywords found in the page text, in the order of the keyword list, and
\* no entry twice, however often a keyword occurs in the text.
C17_MatchedInOrderNoDuplicates ==
    IsPageResult(xout) =>
        LET km == xout.value.keywords_matched
        IN  /\ Range(km) = {kw \in Range(xin.kws) :
                               Contains(Lower(xin.page.text), Lower(kw))}
            /\ \A a \in 1..Len(km) : \A b \in 1..Len(km) :
                   a < b => FirstIndex(xin.kws, km[a]) <= FirstIndex(xin.kws, km[b])
            /\ \A a \in 1..Len(km) : \A b \in 1..Len(km) : a # b => km[a] # km[b]

\* C18: a save for one category leaves every other category's file as it
\* was, and after any sequence of saves each category's file (absent before
\* the first save) holds exactly the batches saved with that category.
C18_OtherCategoriesUnchanged ==
    [][IF ~last'.called THEN fs' = fs
       ELSE /\ \A c \in CategorySet : c # last'.cat => fs'[c] = fs[c]
            /\ \A c \in CategorySet : calls'[c] = 0 => fs'[c] = fs0[c]
            /\ \A c \in CategorySet :
                   (fs0[c] = Absent /\ calls'[c] > 0) =>
                       IsCollection(fs'[c]) /\ Collection(fs'[c]) = saved'[c]]_vars

\* C18 witness: two categories were saved, one after the other, with
\* different batches, and each file holds its own batch
C18_Witness ==
    \E c1 \in CategorySet : \E c2 \in CategorySet :
        /\ c1 # c2
        /\ fs0[c1] = Absent /\ fs0[c2] = Absent
        /\ last.called /\ last.cat = c2
        /\ saved[c1] = <<Entry1>>
        /\ saved[c2] = <<Entry2, Entry1>>
        /\ fs[c1] = json_dump(<<Entry1>>)
        /\ fs[c2] = json_dump(<<Entry2, Entry1>>)

\* what the pipeline of task i returns, as a function of the response its
\* seed URL gave (None for a failed or non-matching URL)
ReturnOf(i) ==
    LET s == scrape_url_step(variant, tasks[i].url, keywords, CurCat, tasks[i].resp)
    IN  IF s.await THEN s.data ELSE s.out.value

\* C19: the batch that scrape_urls collects and hands to
\* save_results_to_file lists the PageResults in the seed-list order of the
\* URLs that produced them, whatever order the pipelines ended in: it is
\* determined by the seed list and the responses alone, so two runs over the
\* same responses with different interleavings persist the same sequence.
C19_ResultsInSeedOrder ==
    BatchEnded =>
        /\ results = SelectSeq([i \in Idx |-> ReturnOf(i)], LAMBDA r : r # None)
        /\ last.called /\ last.cat = CurCat /\ last.batch = results
        /\ (~last.raised /\ fs0[CurCat] = Absent) => fs[CurCat] = json_dump(results)

\* C19 witness: a batch ended in which the second seed URL's pipeline ended
\* before the first's, and both PageResults were collected, the first seed
\* URL's first
C19_Witness ==
    /\ BatchEnded
    /\ Len(tasks) = 2
    /\ finished = <<2, 1>>
    /\ Len(results) = 2
    /\ results[1] # results[2]
    /\ results[1] = tasks[1].ret
    /\ fs[CurCat] = json_dump(results)

\* the pipelines between their acquire and their release of the semaphore
Holders == {i \in Idx : tasks[i].pc \in {"fetching", "downloading"}}

\* C20: in v1 and v2 concurrency slots never leak: the number of held slots
\* always equals the number of pipelines between acquire and release (each
\* pipeline that acquired a slot gives it back exactly once, whether its
\* scrape returned a result, returned None or failed), the pipelines
\* blocked in acquire are exactly the queued waiters, and when the batch's
\* gather has returned all 10 slots are free and nobody waits.
C20_SlotsNeverLeak ==
    (uses_semaphore(variant) /\ cur > 0) =>
        /\ semaphore \in 0..SemaphoreLimit
        /\ SemaphoreLimit - semaphore = Cardinality(Holders)
        /\ {i \in Idx : tasks[i].pc = "waiting"} = Range(waiters)
        /\ Len(waiters) = Cardinality(Range(waiters))
        /\ waiters # <<>> => semaphore = 0
        /\ BatchEnded => (semaphore = SemaphoreLimit /\ waiters = <<>>)

\* C20 witness: a batch of more pipelines than slots ended, one of its
\* pipelines failed, one returned None, the last one had to wait and
\* returned a result, and all slots are free
C20_Witness ==
    /\ uses_semaphore(variant)
    /\ BatchEnded
    /\ Len(tasks) > SemaphoreLimit
    /\ tasks[1].resp = FetchError
    /\ tasks[2].resp = PageNoMatch
    /\ tasks[Len(tasks)].ret # None
    /\ semaphore = SemaphoreLimit

====
